---- MODULE Spec2Model ----
(***************************************************************************)
(* Incremental story clustering of automation/build_story_md.py:           *)
(* cluster_incremental, the lifecycle queries pick_first_reports and       *)
(* pick_longform_targets, and main's load / cluster / save sequence.       *)
(*                                                                         *)
(* Floats are fixed-point integers: a vector component x stands for        *)
(* x / Scale, a similarity or threshold s for s / Scale^2.  Embeddings     *)
(* are two-dimensional; the encoder is a table from title to unit vector.  *)
(***************************************************************************)
EXTENDS Integers, Sequences, FiniteSets, TLC

VARIABLES
    state,   \* the in-memory store: state["stories"], a sequence of stories
    disk,    \* automation/state.json: "missing" or the saved sequence of stories
    pc,      \* main's position
    started, \* what automation/state.json held when the current run of main began
    call,    \* the arguments of the latest cluster_incremental call
    alt      \* the store the latest call yields under the threshold it is compared with

vars == <<state, disk, pc, started, call, alt>>

----------------------------------------------------------------------------
(* Bounds of the model *)

MaxItems == 4       \* items held by a store, over all its stories
MaxBatchLen == 2    \* items per cluster_incremental call

----------------------------------------------------------------------------
(* Numbers *)

Scale == 10 * 100
One == Scale * Scale

\* the two min_similarity settings the model draws from: 0.5 and 0.643
Thresholds == {500000, 643000}

Locales == {"jp", "en"}

RECURSIVE SqrtSearch(_, _, _)
SqrtSearch(n, lo, hi) ==
    IF lo >= hi THEN lo
    ELSE LET mid == (lo + hi + 1) \div 2
         IN  IF mid * mid <= n THEN SqrtSearch(n, mid, hi)
                               ELSE SqrtSearch(n, lo, mid - 1)

\* floor of the square root, for n below 2^31
ISqrt(n) == SqrtSearch(n, 0, IF n < 46340 THEN n ELSE 46340)

\* x / d rounded to the nearest integer, d > 0
RoundDiv(x, d) == (2 * x + d) \div (2 * d)

\* a centroid that is not a number (0/0 in numpy yields nan, not an exception)
NaNVec == <<>>

\* np.dot of two vectors; nan if either has none
Dot(a, b) == a[1] * b[1] + a[2] * b[2]

\* np.linalg.norm(arr), in units of 1/Scale
Norm(arr) == ISqrt(Dot(arr, arr))

\* arr / np.linalg.norm(arr)
Normalized(arr) ==
    IF arr = NaNVec \/ Norm(arr) = 0 THEN NaNVec
    ELSE <<RoundDiv(arr[1] * Scale, Norm(arr)), RoundDiv(arr[2] * Scale, Norm(arr))>>

----------------------------------------------------------------------------
(* The encoder: SentenceTransformer.encode(titles, normalize_embeddings=True) *)

Titles == {"A0", "A58", "Am40"}

\* unit vectors at 0, 58 and -40 degrees
Embed(title) ==
    CASE title = "A0"   -> <<1000, 0>>
      [] title = "A58"  -> <<530, 848>>
      [] title = "Am40" -> <<766, -643>>

----------------------------------------------------------------------------
(* Stores *)

\* {"stories": []}
EmptyStore == <<>>

Idx(n) == [i \in 1..n |-> i]

RECURSIVE SeqMax(_)
\* max of a non-empty sequence
SeqMax(seq) ==
    IF Len(seq) = 1 THEN Head(seq)
    ELSE LET m == SeqMax(Tail(seq)) IN IF Head(seq) >= m THEN Head(seq) ELSE m

Ids(stories) == [i \in 1..Len(stories) |-> stories[i].id]

RECURSIVE SumLens(_)
SumLens(stories) ==
    IF stories = <<>> THEN 0 ELSE Len(Head(stories).items) + SumLens(Tail(stories))

----------------------------------------------------------------------------
(* cluster_incremental *)

\* def cos(a,b): the dot product of two unit vectors
cos(a, b) == Dot(a, b)

\* the candidates with the locale filter left out
AllStories(stories, locale) == Idx(Len(stories))

\* stories = [s for s in state["stories"] if s.get("locale")==locale], taken once
\* before the loop: the positions in state["stories"] of the stories it refers to
LocaleStories(stories, locale) ==
    SelectSeq(Idx(Len(stories)), LAMBDA i : stories[i].locale = locale)

NoneId == 0

RECURSIVE Scan(_, _, _, _, _)
\* for st in stories: c = cos(v, st["centroid"]); if c>best: sid=st["id"]; best=c
Scan(v, cands, stories, sid, best) ==
    IF cands = <<>> THEN [sid |-> sid, best |-> best]
    ELSE LET st == stories[Head(cands)]
             c  == cos(v, st.centroid)
         IN  IF st.centroid # NaNVec /\ c > best
             THEN Scan(v, Tail(cands), stories, st.id, c)
             ELSE Scan(v, Tail(cands), stories, sid, best)

\* sid=None; best=-1.0, then the scan
Nearest(v, cands, stories) == Scan(v, cands, stories, NoneId, -One)

\* st=[s for s in state["stories"] if s["id"]==sid][0]
FirstWithId(stories, sid) ==
    CHOOSE i \in 1..Len(stories) :
        /\ stories[i].id = sid
        /\ \A j \in 1..(i - 1) : stories[j].id # sid

\* arr=np.array(centroid)*(n-1); arr=(arr+v)/n; arr/np.linalg.norm(arr), with n the
\* number of items after the append (the division by n cancels in the quotient)
Recentred(centroid, v, n) ==
    IF centroid = NaNVec THEN NaNVec
    ELSE Normalized(<<centroid[1] * (n - 1) + v[1], centroid[2] * (n - 1) + v[2]>>)

\* the append without the check of the link
AttachUnguarded(stories, sid, it, v) ==
    LET k  == FirstWithId(stories, sid)
        st == stories[k]
    IN  [stories EXCEPT ![k] =
            [st EXCEPT !.items = Append(st.items, it),
                       !.centroid = Recentred(st.centroid, v, Len(st.items) + 1)]]

\* the append written as an assignment: st["items"] = [it]
AttachReplacing(stories, sid, it, v) ==
    LET k  == FirstWithId(stories, sid)
        st == stories[k]
    IN  IF \A x \in 1..Len(st.items) : it.link # st.items[x].link
        THEN [stories EXCEPT ![k] =
                 [st EXCEPT !.items = <<it>>,
                            !.centroid = Recentred(st.centroid, v, 2)]]
        ELSE stories

\* the branch that adds to an existing story; an item whose link is there is skipped
Attach(stories, sid, it, v) ==
    LET k  == FirstWithId(stories, sid)
        st == stories[k]
    IN  IF \A x \in 1..Len(st.items) : it.link # st.items[x].link
        THEN [stories EXCEPT ![k] =
                 [st EXCEPT !.items = Append(st.items, it),
                            !.centroid = Recentred(st.centroid, v, Len(st.items) + 1)]]
        ELSE stories

\* the id link_stories of generate_story.py gives: the number of stories so far
NewIdZeroBased(stories) == Len(stories)

\* new_id = max([s["id"] for s in state["stories"]] or [0]) + 1
NewId(stories) == SeqMax(IF stories = <<>> THEN <<0>> ELSE Ids(stories)) + 1

\* the branch that appends a new story
Spawn(stories, locale, it, v) ==
    Append(stories, [id |-> NewId(stories), locale |-> locale, centroid |-> v, items |-> <<it>>])

\* the comparison with the threshold turned round
AttachesInverted(near, thr) == near.best <= thr /\ near.sid # NoneId

\* if best>=thr and sid is not None
Attaches(near, thr) == near.best >= thr /\ near.sid # NoneId

\* one pass of the loop body, for item it with vector v
AssignItem(locale, it, v, thr, cands, stories) ==
    LET near == Nearest(v, cands, stories)
    IN  IF Attaches(near, thr)
        THEN Attach(stories, near.sid, it, v)
        ELSE Spawn(stories, locale, it, v)

RECURSIVE Loop(_, _, _, _, _)
\* for i, it in enumerate(items)
Loop(locale, items, thr, cands, stories) ==
    IF items = <<>> THEN stories
    ELSE Loop(locale, Tail(items), thr, cands,
              AssignItem(locale, Head(items), Embed(Head(items).title), thr, cands, stories))

cluster_incremental(locale, items, thr, stories) ==
    Loop(locale, items, thr, LocaleStories(stories, locale), stories)

----------------------------------------------------------------------------
(* Lifecycle queries *)

RECURSIVE InsertDescUnstable(_, _)
\* a descending sort that puts e before the elements of equal key
InsertDescUnstable(sorted, e) ==
    IF sorted = <<>> THEN <<e>>
    ELSE IF Head(sorted).key > e.key
         THEN <<Head(sorted)>> \o InsertDescUnstable(Tail(sorted), e)
         ELSE <<e>> \o sorted

RECURSIVE InsertDesc(_, _)
\* the place list.sort(reverse=True) gives e among the already sorted elements before
\* it: after every element whose key is not smaller (the sort is stable)
InsertDesc(sorted, e) ==
    IF sorted = <<>> THEN <<e>>
    ELSE IF Head(sorted).key >= e.key
         THEN <<Head(sorted)>> \o InsertDesc(Tail(sorted), e)
         ELSE <<e>> \o sorted

RECURSIVE SortDescFrom(_, _)
SortDescFrom(done, rest) ==
    IF rest = <<>> THEN done ELSE SortDescFrom(InsertDesc(done, Head(rest)), Tail(rest))

\* seq.sort(key=..., reverse=True) on a sequence of [key, val]: the vals in order
SortDesc(keyed) ==
    LET r == SortDescFrom(<<>>, keyed) IN [i \in 1..Len(r) |-> r[i].val]

\* def last_date(s): max(x["date"] for x in s["items"])
last_date(s) == SeqMax([i \in 1..Len(s.items) |-> s.items[i].date])

\* the length of seq[:limit] for a sequence of n elements
PySliceEnd(n, limit) ==
    IF limit >= n THEN n
    ELSE IF limit >= 0 THEN limit
    ELSE IF n + limit >= 0 THEN n + limit ELSE 0

\* the first reports without the test of the number of items
PickAllReports(stories, locale) ==
    LET out == SelectSeq(stories, LAMBDA st : st.locale = locale)
    IN  SortDesc([i \in 1..Len(out) |-> [key |-> out[i].items[1].date, val |-> out[i]]])

pick_first_reports(stories, locale) ==
    LET out == SelectSeq(stories, LAMBDA st : st.locale = locale /\ Len(st.items) = 1)
    IN  SortDesc([i \in 1..Len(out) |-> [key |-> out[i].items[1].date, val |-> out[i]]])

pick_longform_targets(stories, locale, limit) ==
    LET cand   == SelectSeq(stories, LAMBDA s : s.locale = locale /\ Len(s.items) >= 2)
        sorted == SortDesc([i \in 1..Len(cand) |-> [key |-> last_date(cand[i]), val |-> cand[i]]])
    IN  SubSeq(sorted, 1, PySliceEnd(Len(sorted), limit))

----------------------------------------------------------------------------
(* What the feeds deliver.  collect() gives every item the title of the feed it
   came from as its source; each locale reads its own feeds. *)

Feed(locale) == IF locale = "jp" THEN "jpfeed" ELSE "enfeed"

Item(title, link, date, locale) ==
    [title |-> title, link |-> link, date |-> date, source |-> Feed(locale)]

\* dates are ISO strings in the code; 1 < 2 stand for two days in order
FeedItems(locale) ==
    { Item("A0", "L1", 2, locale), Item("A58", "L3", 2, locale),
      Item("Am40", "L2", 1, locale), Item("Am40", "L4", 2, locale) }

RECURSIVE SeqsUpTo(_, _)
\* the sequences over S of length at most n
SeqsUpTo(S, n) ==
    IF n = 0 THEN {<<>>}
    ELSE LET shorter == SeqsUpTo(S, n - 1)
         IN  shorter \cup { Append(q, x) : q \in shorter, x \in S }

Batches(locale) == SeqsUpTo(FeedItems(locale), MaxBatchLen)

----------------------------------------------------------------------------
(* The clustering engine on its own: calls of cluster_incremental on one store,
   starting from the empty store. *)

NoCall == [locale |-> "none", items |-> <<>>, thr |-> 0]

\* automation/state.json: absent, or the JSON text save_state wrote
Missing == [kind |-> "missing", stories |-> <<>>]
Saved(stories) == [kind |-> "saved", stories |-> stories]

Init ==
    /\ state = EmptyStore
    /\ disk = Missing
    /\ pc = "engine"
    /\ started = Missing
    /\ call = NoCall
    /\ alt = EmptyStore

\* state = cluster_incremental(locale, items, thr, state)
Cluster(locale, items, thr) ==
    /\ SumLens(state) + Len(items) <= MaxItems
    /\ state' = cluster_incremental(locale, items, thr, state)

ClusterCall ==
    \E locale \in Locales : \E items \in Batches(locale) : \E thr \in Thresholds :
        /\ Cluster(locale, items, thr)
        /\ UNCHANGED <<disk, pc, started, call, alt>>

Next == ClusterCall

Spec == Init /\ [][Next]_vars

----------------------------------------------------------------------------
(* Properties of the stores the engine reaches *)

Range(seq) == { seq[i] : i \in 1..Len(seq) }

Links(st) == [i \in 1..Len(st.items) |-> st.items[i].link]

\* C2: within one story of the store, no two items have the same link.
NoDuplicateLinks ==
    \A k \in 1..Len(state) :
        \A i, j \in 1..Len(state[k].items) :
            i # j => state[k].items[i].link # state[k].items[j].link

\* the link guard is what keeps it: some item of the feeds is nearest to a story
\* that has grown and already holds the item's link, so ingesting it is skipped
WitnessLinkGuard ==
    \E locale \in Locales : \E it \in FeedItems(locale) : \E thr \in Thresholds :
        LET near == Nearest(Embed(it.title), LocaleStories(state, locale), state)
        IN  /\ Attaches(near, thr)
            /\ Len(state[FirstWithId(state, near.sid)].items) >= 2
            /\ it.link \in Range(Links(state[FirstWithId(state, near.sid)]))

\* C4: every item of a story came from the feeds of the story's locale: an item
\* ingested under one locale is in no story of the other.
LocaleIsolation ==
    \A k \in 1..Len(state) :
        \A i \in 1..Len(state[k].items) :
            state[k].items[i].source = Feed(state[k].locale)

\* both locales hold a story with the same title in it, and one of them has grown
WitnessTwoLocales ==
    \E a, b \in 1..Len(state) :
        /\ state[a].locale = "jp" /\ state[b].locale = "en"
        /\ state[a].items[1].title = state[b].items[1].title
        /\ Len(state[b].items) >= 2
        /\ a < b

----------------------------------------------------------------------------
(* Lifecycle queries on the stores the engine reaches *)

MaxLimit == 3

\* max_longform_per_run
Limits == 0..MaxLimit

OfLocale(locale) == { st \in Range(state) : st.locale = locale }

Once(locale) == { st \in OfLocale(locale) : Len(st.items) = 1 }

Grown(locale) == { st \in OfLocale(locale) : Len(st.items) >= 2 }

\* C5, as claimed: whatever the limit, the stories with one item are exactly the
\* first result, those with two or more exactly the second, and none is in both.
LifecyclePartition ==
    \A locale \in Locales : \A limit \in Limits :
        LET first   == Range(pick_first_reports(state, locale))
            targets == Range(pick_longform_targets(state, locale, limit))
        IN  /\ first = Once(locale)
            /\ targets = Grown(locale)
            /\ first \cap targets = {}

\* C5, amended: the first result is exactly the stories with one item; the second
\* holds only stories with two or more items, min(limit, their number) of them, so
\* all of them when the limit is at least their number; no story is in both.
LifecyclePartitionWithinLimit ==
    \A locale \in Locales : \A limit \in Limits :
        LET first   == pick_first_reports(state, locale)
            targets == pick_longform_targets(state, locale, limit)
            n       == Cardinality(Grown(locale))
        IN  /\ Range(first) = Once(locale)
            /\ Len(first) = Cardinality(Once(locale))
            /\ Range(targets) \subseteq Grown(locale)
            /\ Len(targets) = (IF limit <= n THEN limit ELSE n)
            /\ Cardinality(Range(targets)) = Len(targets)
            /\ (limit >= n => Range(targets) = Grown(locale))
            /\ Range(first) \cap Range(targets) = {}

\* a locale holds two grown stories, more than a limit of 1 lets through
WitnessTruncation ==
    \E locale \in Locales : Cardinality(Grown(locale)) >= 2

TiesAscending(result, Key(_)) ==
    \A i, j \in 1..Len(result) :
        (i < j /\ Key(result[i]) = Key(result[j])) => result[i].id < result[j].id

FirstDate(st) == st.items[1].date

\* C6: stories with the same date come out of both queries in ascending id order.
DeterminismUnderTies ==
    \A locale \in Locales :
        /\ TiesAscending(pick_first_reports(state, locale), FirstDate)
        /\ \A limit \in Limits :
               TiesAscending(pick_longform_targets(state, locale, limit), last_date)

\* two grown stories of a locale were last updated on the same date
WitnessTie ==
    \E locale \in Locales : \E a, b \in Grown(locale) :
        a.id # b.id /\ last_date(a) = last_date(b)

\* C7, as claimed: every story's items are in ascending order of date.
ItemsOrderedByDate ==
    \A k \in 1..Len(state) :
        \A i, j \in 1..Len(state[k].items) :
            i < j => state[k].items[i].date <= state[k].items[j].date

----------------------------------------------------------------------------
(* Story identity *)

MaxId(stories) == IF stories = <<>> THEN 0 ELSE SeqMax(Ids(stories))

\* in the order of creation the ids go up from 1, so that no two stories of the store,
\* of whatever locale, have the same id
IdsAscendFromOne ==
    /\ (state # <<>> => state[1].id = 1)
    /\ \A i, j \in 1..Len(state) : i < j => state[i].id < state[j].id

\* every story a call appends gets the greatest id of the stories before it, plus one
NewIdsAreMaxPlusOne ==
    \A k \in (Len(state) + 1)..Len(state') :
        state'[k].id = MaxId(SubSeq(state', 1, k - 1)) + 1

\* the ids a store has had stay with the stories that have them
IdsKept ==
    \A i \in 1..Len(state) : i <= Len(state') /\ state'[i].id = state[i].id

\* C8: a spawned story gets max(ids of the whole store, 0) + 1; the first story has
\* id 1, ids are distinct across locales, increase in creation order, are never reused.
StoryIds == [](IdsAscendFromOne) /\ [][NewIdsAreMaxPlusOne /\ IdsKept]_vars

\* stories of both locales alternate in the store
WitnessInterleavedIds ==
    /\ Len(state) >= 3
    /\ state[1].locale = "jp" /\ state[2].locale = "en" /\ state[3].locale = "jp"
    /\ state[3].id = 3

IsPrefix(p, q) == Len(p) <= Len(q) /\ SubSeq(q, 1, Len(p)) = p

\* one pass of the loop that starts a new story leaves every story there was as it is
SpawnLeavesOthers ==
    \A locale \in Locales : \A it \in FeedItems(locale) : \A thr \in Thresholds :
        LET after == AssignItem(locale, it, Embed(it.title), thr,
                                LocaleStories(state, locale), state)
        IN  Len(after) > Len(state) => IsPrefix(state, after)

\* a call removes no story, merges none into another and takes no item away
NothingRemoved ==
    \A s \in Range(state) :
        \E t \in Range(state') :
            /\ t.id = s.id
            /\ t.locale = s.locale
            /\ IsPrefix(s.items, t.items)
            /\ Cardinality({ u \in Range(state') : u.id = s.id }) = 1

ItemsNonEmpty == \A s \in Range(state) : Len(s.items) >= 1

\* C9: starting a story changes no existing story; no story is removed or merged, no
\* item is removed, and every story keeps at least one item.
StoriesOnlyGrow ==
    [](SpawnLeavesOthers /\ ItemsNonEmpty) /\ [][NothingRemoved /\ Len(state') >= Len(state)]_vars

\* a store where a story has grown and a further story was started after that
WitnessGrownThenSpawned ==
    /\ Len(state) >= 2
    /\ Len(state[1].items) >= 2
    /\ state[2].locale = state[1].locale
    /\ state[1].centroid # Embed(state[1].items[1].title)

----------------------------------------------------------------------------
(* The same call made twice: the engine, with the arguments of each call kept *)

RecordedCall ==
    \E locale \in Locales : \E items \in Batches(locale) : \E thr \in Thresholds :
        /\ Cluster(locale, items, thr)
        /\ call' = [locale |-> locale, items |-> items, thr |-> thr]
        /\ UNCHANGED <<disk, pc, started, alt>>

NextIdem == RecordedCall

SpecIdem == Init /\ [][NextIdem]_vars

ItemCounts(stories) == [i \in 1..Len(stories) |-> Len(stories[i].items)]

\* C1, as claimed: a call with the arguments of the call before it appends no item
\* to any story and starts no story.
IdempotentReingestion ==
    [][call' = call => ItemCounts(state') = ItemCounts(state)]_vars

----------------------------------------------------------------------------
(* One call under two thresholds: the engine goes on with the lower threshold's
   store, alt holds the store the higher threshold gives from the same start *)

MonoBatchLen == 3

\* the items compared: three titles from the jp feeds, two from the en feeds
ComparedItems(locale) ==
    IF locale = "jp"
    THEN { Item("A0", "L1", 2, locale), Item("A58", "L3", 2, locale), Item("Am40", "L2", 1, locale) }
    ELSE { Item("A0", "L1", 2, locale), Item("A58", "L3", 2, locale) }

ComparedCall ==
    \E locale \in Locales : \E items \in SeqsUpTo(ComparedItems(locale), MonoBatchLen) :
        \E t1, t2 \in Thresholds :
            /\ t1 <= t2
            /\ Cluster(locale, items, t1)
            /\ alt' = cluster_incremental(locale, items, t2, state)
            /\ call' = [locale |-> locale, items |-> items, thr |-> t1]
            /\ UNCHANGED <<disk, pc, started>>

NextMono == ComparedCall

SpecMono == Init /\ [][NextMono]_vars

\* C3, as claimed: the higher threshold never gives fewer stories.
ThresholdMonotonicity == Len(alt) >= Len(state)

\* C3, amended: for a batch of at most two items the higher threshold never gives
\* fewer stories.
ThresholdMonotonicityShortBatch ==
    Len(call.items) <= 2 => Len(alt) >= Len(state)

\* a batch of two items on a store with stories, where the higher threshold started
\* a story that the lower one did not
WitnessMoreStories ==
    /\ Len(call.items) = 2
    /\ Len(alt) > Len(state)
    /\ Len(state) >= 2

----------------------------------------------------------------------------
(* main: load_state, cluster_incremental for jp and for en as --only says, then
   save_state.  The queries and the files written between the calls leave the
   store and state.json alone and are not steps of the model. *)

\* state.json with text json.loads rejects
Garbled == [kind |-> "garbled", stories |-> <<>>]

\* state.json with JSON that is no mapping with a stories list, such as {} or []
OtherJson == [kind |-> "other", stories |-> <<>>]

\* what json.loads makes of OtherJson: a value without a list under "stories"
NotAStore == <<[parsed |-> "other"]>>

\* state["stories"] is there and is a list of stories
IsStore(value) == IF Len(value) = 0 THEN TRUE ELSE "id" \in DOMAIN value[1]

\* json.loads of the file when it exists and parses, whatever it holds;
\* {"stories": []} when there is no file or json.loads raises
load_state(file) ==
    CASE file.kind = "saved" -> file.stories
      [] file.kind = "other" -> NotAStore
      [] OTHER               -> EmptyStore

\* STATE.write_text(json.dumps(s)): the whole file is replaced
save_state(stories) == Saved(stories)

\* what the feeds of a locale deliver to a run of main
MainItems(locale) ==
    IF locale = "jp"
    THEN { Item("A0", "L1", 2, locale), Item("Am40", "L2", 1, locale) }
    ELSE { Item("A0", "L1", 2, locale), Item("A58", "L3", 2, locale) }

MainBatches(locale) == SeqsUpTo(MainItems(locale), MaxBatchLen)

InitMain ==
    /\ state = EmptyStore
    /\ disk = Missing
    /\ pc = "idle"
    /\ started = Missing
    /\ call = NoCall
    /\ alt = EmptyStore

\* state=load_state(), and the branch args.only selects
MainLoad ==
    /\ pc = "idle"
    /\ state' = load_state(disk)
    /\ started' = disk
    /\ pc' \in {"jp_only", "jp_both", "en"}
    /\ UNCHANGED <<disk, call, alt>>

\* state = cluster_incremental("jp", jp_items, ..., state)
MainClusterJP ==
    /\ pc \in {"jp_only", "jp_both"}
    /\ IsStore(state)
    /\ \E items \in MainBatches("jp") : \E thr \in Thresholds :
           /\ Cluster("jp", items, thr)
           /\ call' = [locale |-> "jp", items |-> items, thr |-> thr]
    /\ pc' = (IF pc = "jp_only" THEN "save" ELSE "en")
    /\ UNCHANGED <<disk, started, alt>>

\* state = cluster_incremental("en", en_items, ..., state)
MainClusterEN ==
    /\ pc = "en"
    /\ IsStore(state)
    /\ \E items \in MainBatches("en") : \E thr \in Thresholds :
           /\ Cluster("en", items, thr)
           /\ call' = [locale |-> "en", items |-> items, thr |-> thr]
    /\ pc' = "save"
    /\ UNCHANGED <<disk, started, alt>>

\* the failure written with the save in a finally clause
MainEmbedFailsAndSaves ==
    /\ pc \in {"jp_only", "jp_both", "en"}
    /\ pc' = "failed"
    /\ disk' = save_state(state)
    /\ UNCHANGED <<state, started, call, alt>>

\* model.encode raises in cluster_incremental, before the loop; main catches nothing
MainEmbedFails ==
    /\ pc \in {"jp_only", "jp_both", "en"}
    /\ pc' = "failed"
    /\ UNCHANGED <<state, disk, started, call, alt>>

\* save_state(state)
MainSave ==
    /\ pc = "save"
    /\ disk' = save_state(state)
    /\ pc' = "done"
    /\ UNCHANGED <<state, started, call, alt>>

\* the process ends, with its store; a later run starts from the file
MainExit ==
    /\ pc \in {"done", "failed"}
    /\ pc' = "idle"
    /\ state' = EmptyStore
    /\ call' = NoCall
    /\ UNCHANGED <<disk, started, alt>>

NextMain ==
    \/ MainLoad
    \/ MainClusterJP
    \/ MainClusterEN
    \/ MainEmbedFails
    \/ MainSave
    \/ MainExit

SpecMain == InitMain /\ [][NextMain]_vars

\* C10: a call whose embedding fails changes no story of the store it was given, the
\* run does not go on to save_state, and state.json is what it was when the run began,
\* also when the call for the locale before it went through.
NoPartialCommit ==
    /\ [](pc = "failed" => disk = started)
    /\ [][pc' = "failed" => (state' = state /\ disk' = disk)]_vars
    /\ [][pc = "failed" => (pc' = "idle" /\ disk' = disk)]_vars

\* the en call failed after the jp call of the run had added to a store read from the file
WitnessFailedAfterJP ==
    /\ pc = "failed"
    /\ call.locale = "jp"
    /\ started.kind = "saved"
    /\ state # load_state(started)
    /\ disk = started

----------------------------------------------------------------------------
(* main on whatever state.json holds when the first run begins *)

InitLoad ==
    /\ state = EmptyStore
    /\ disk \in {Missing, Garbled, OtherJson}
    /\ pc = "idle"
    /\ started = Missing
    /\ call = NoCall
    /\ alt = EmptyStore

\* state["stories"] raises in cluster_incremental (line 103) when the loaded value has
\* no list under "stories"; main catches nothing
MainStoreError ==
    /\ pc \in {"jp_only", "jp_both", "en"}
    /\ ~IsStore(state)
    /\ pc' = "failed"
    /\ UNCHANGED <<state, disk, started, call, alt>>

NextLoad == NextMain \/ MainStoreError

SpecLoad == InitLoad /\ [][NextLoad]_vars

JustLoaded == pc \in {"jp_only", "jp_both", "en"} /\ call = NoCall

\* C11, as claimed: when state.json is missing or unreadable (not parseable, or
\* parseable but no mapping with a stories list) load_state returns the empty store,
\* so that the calls after it go on as on a first run.
LoadStateTolerant ==
    (JustLoaded /\ started.kind # "saved") => state = EmptyStore

----------------------------------------------------------------------------
(* Centroid norms: the engine on titles whose embeddings are opposite, with
   thresholds down to -1.0 *)

\* unit vectors at 45 and 225 degrees as the encoder rounds them (the squared norm
\* of a rounded unit vector is a little off 1.0, here below it), and at 0 and 180
\* degrees, which are exact
EmbedOpposite(title) ==
    CASE title = "B45"  -> <<707, 707>>
      [] title = "B225" -> <<-707, -707>>
      [] title = "A180" -> <<-1000, 0>>
      [] OTHER          -> Embed(title)

NormItems(locale) ==
    { Item("B45", "L1", 1, locale), Item("B225", "L2", 1, locale),
      Item("A0", "L3", 2, locale), Item("A180", "L4", 2, locale) }

NormThresholds == {-One, 500000}

RECURSIVE LoopOpposite(_, _, _, _, _)
\* the loop of cluster_incremental, on the vectors of EmbedOpposite
LoopOpposite(locale, items, thr, cands, stories) ==
    IF items = <<>> THEN stories
    ELSE LoopOpposite(locale, Tail(items), thr, cands,
             AssignItem(locale, Head(items), EmbedOpposite(Head(items).title), thr, cands, stories))

NormCall ==
    \E locale \in Locales : \E items \in SeqsUpTo(NormItems(locale), MaxBatchLen) :
        \E thr \in NormThresholds :
            /\ SumLens(state) + Len(items) <= MaxItems
            /\ state' = LoopOpposite(locale, items, thr, LocaleStories(state, locale), state)
            /\ call' = [locale |-> locale, items |-> items, thr |-> thr]
            /\ UNCHANGED <<disk, pc, started, alt>>

NextNorm == NormCall

SpecNorm == Init /\ [][NextNorm]_vars

\* how far from 1.0 the squared norm of a centroid can be here: its components are
\* rounded to 1/Scale after the division by a norm that is itself rounded down
UnitTolerance == 5 * Scale

IsUnit(vec) ==
    IF vec = NaNVec THEN FALSE
    ELSE Dot(vec, vec) - One <= UnitTolerance /\ One - Dot(vec, vec) <= UnitTolerance

\* C12, as claimed: after every call every story's centroid has unit norm, within
\* the tolerance; in particular no update divides by a zero norm.
CentroidUnitNorm ==
    \A k \in 1..Len(state) : IsUnit(state[k].centroid)

\* what remains: a centroid that is a number has unit norm
NumberCentroidsUnit ==
    \A k \in 1..Len(state) : state[k].centroid # NaNVec => IsUnit(state[k].centroid)

----------------------------------------------------------------------------
(* The candidates within one batch *)

\* the stories a step of the engine starts: the positions past the old end
SpawnedInStep == { k \in 1..Len(state') : k > Len(state) }

\* C13, as claimed: the candidates of an item include the stories started by
\* earlier items of the same batch, so an item that is within the threshold of a
\* story started earlier in its batch attaches and starts no story. Of two stories
\* started by one call, the later one's first item is below the threshold of the
\* earlier one when that one still has its first centroid.
StreamingFold ==
    [][\A i \in SpawnedInStep : \A j \in SpawnedInStep :
          (i < j /\ Len(state'[i].items) = 1)
              => cos(Embed(state'[j].items[1].title), state'[i].centroid) < call'.thr]_vars

----------------------------------------------------------------------------
(* The decision for one item: calls of SpecNorm with a batch of one item *)

NoNaN(stories) == \A k \in 1..Len(stories) : stories[k].centroid # NaNVec

\* the positions of the stories of the call's locale before the call
CandidatesBefore == { k \in 1..Len(state) : state[k].locale = call'.locale }

SimilarityBefore(k) == cos(EmbedOpposite(call'.items[1].title), state[k].centroid)

\* the earliest candidate of maximum similarity
EarliestNearest ==
    CHOOSE k \in CandidatesBefore :
        /\ \A j \in CandidatesBefore : SimilarityBefore(j) <= SimilarityBefore(k)
        /\ \A j \in CandidatesBefore : SimilarityBefore(j) = SimilarityBefore(k) => k <= j

\* story k took the item, or has its link already, and no other story changed
AssignedTo(k) ==
    /\ Len(state') = Len(state)
    /\ \A j \in 1..Len(state) : j # k => state'[j] = state[j]
    /\ \/ state'[k].items = Append(state[k].items, call'.items[1])
       \/ /\ call'.items[1].link \in Range(Links(state[k]))
          /\ state'[k] = state[k]

SpawnedOne ==
    /\ Len(state') = Len(state) + 1
    /\ \A j \in 1..Len(state) : state'[j] = state[j]
    /\ state'[Len(state')].items = <<call'.items[1]>>

DecisionFor(lowest) ==
    (Len(call'.items) = 1 /\ NoNaN(state)) =>
        IF CandidatesBefore = {}
              \/ \A k \in CandidatesBefore : SimilarityBefore(k) < call'.thr
        THEN SpawnedOne
        ELSE SimilarityBefore(EarliestNearest) >= lowest => AssignedTo(EarliestNearest)

\* C14, as claimed: an item starts a story iff it has no candidate or its greatest
\* similarity is below the threshold; otherwise, whatever the similarity from -1.0
\* to 1.0, it goes to the earliest candidate of greatest similarity.
AssignmentDecision == [][DecisionFor(-One)]_vars

\* what remains: the decision when the greatest similarity is above -1.0
AssignmentDecisionAboveMinusOne == [][DecisionFor(1 - One)]_vars

----------------------------------------------------------------------------
(* The centroid against the mean of the members, in SpecNorm *)

RECURSIVE SumOfEmbeddings(_)
SumOfEmbeddings(items) ==
    IF items = <<>> THEN <<0, 0>>
    ELSE LET v    == EmbedOpposite(Head(items).title)
             rest == SumOfEmbeddings(Tail(items))
         IN  <<v[1] + rest[1], v[2] + rest[2]>>

\* the unit-normalized arithmetic mean of the embeddings of the items
MeanOfMembers(st) == Normalized(SumOfEmbeddings(st.items))

Abs(n) == IF n < 0 THEN -n ELSE n

\* half a percent in each component: above what the rounding to 1/Scale adds up to
MeanTolerance == Scale \div 200

Near(a, b) == Abs(a[1] - b[1]) <= MeanTolerance /\ Abs(a[2] - b[2]) <= MeanTolerance

CentroidIsMeanUpTo(size) ==
    \A k \in 1..Len(state) :
        LET st == state[k]
        IN  (Len(st.items) <= size /\ st.centroid # NaNVec /\ MeanOfMembers(st) # NaNVec)
                => Near(st.centroid, MeanOfMembers(st))

\* C15, as claimed: the centroid of every story, of three or more items too, is the
\* unit-normalized arithmetic mean of the embeddings of all its items.
CentroidIsMean == CentroidIsMeanUpTo(MaxItems)

\* what remains: the centroid of a story of one or two items is that mean
CentroidIsMeanOfTwo == CentroidIsMeanUpTo(2)

====
